---- MODULE Spec2Model ----
(***************************************************************************)
(* A model of the text-adventure session: run_game (main.py) builds a      *)
(* GameWorld (game_world.py) from the world data, then GameUI (game_ui.py) *)
(* drives it through move and perform_action.  The external generators    *)
(* (utils.py) are nondeterministic: they return one of a few results or    *)
(* raise.                                                                  *)
(***************************************************************************)
EXTENDS Integers, Sequences, FiniteSets, TLC

\* ---- bounds of the model ----
MaxRooms == 2      \* entries of world_data['rooms'] that run_game loads
MaxVisited == 3    \* moves are taken while visited_rooms is shorter than this
MaxLen == 3        \* longest history / reference order given to is_canon_route alone

\* ---- the inputs ----
RoomNames == {"A", "B"}
CanonNames == {"A", "B", "C"}
CanonEvents == <<"c1", "c2", "c3", "c4">>
Orders == {<<"A">>, <<"A", "B">>}
Stores == {<<>>, ("hp" :> 0 @@ "mp" :> 0)}
NonCanonTexts == {"g1", "g2"}

\* Python's None and a present Optional value.
None == <<>>
Some(x) == <<x>>
Val(o) == o[1]

\* models.Direction
NORTH == "north"
SOUTH == "south"
EAST == "east"
WEST == "west"
Direction == {NORTH, SOUTH, EAST, WEST}

\* The directions the connections of the world data use.
WiredDirections == {NORTH, EAST}

\* models.Event, a named tuple (event, is_canon)
Event(event, is_canon) == [event |-> event, is_canon |-> is_canon]

\* What game_ui.py:259 appends to seen_events: the class Event itself.
EventClass == [class |-> "Event"]

\* models.Action
Action(action_description, changed_variables) ==
    [action_description |-> action_description, changed_variables |-> changed_variables]

\* The action lists the external action generator answers with.
GenActions ==
    { << Action("a1", ("hp" :> 1 @@ "xp" :> 1)), Action("a2", <<>>) >>,
      << Action("a3", ("xp" :> 1)) >> }

\* models.Room.__init__
Room(name, canon_event) ==
    [name |-> name,
     canon_event |-> canon_event,
     connections |-> [d \in Direction |-> None]]

VARIABLES
    pc,                         \* where run_game is: add_rooms, connect_rooms, start_ui, run, crashed
    room_objs,                  \* the Room objects created so far, by identity
    rooms,                      \* GameWorld.rooms: name -> Room object
    current_room,               \* GameWorld.current_room: Optional Room object
    original_room_visit_order,  \* GameWorld.original_room_visit_order
    current_event,              \* GameWorld.current_event: Optional Event
    visited_rooms,              \* GameWorld.visited_rooms
    seen_events,                \* GameWorld.seen_events
    variables,                  \* GameWorld.variables
    actions,                    \* GameWorld.actions: Optional list of Action
    buttons,                    \* GameUI.actions_button_frame: the action buttons shown
    last,                       \* the operation that ran last, its arguments and outcome
    calls,                      \* the generator calls the last operation made, in order
    H, R, result,               \* is_canon_route applied alone to a history and an order
    parse,                      \* parse_variables applied alone: the lines given and what it returned
    layout                      \* GameUI.calculate_room_positions: its locals and the fields it sets

world == <<room_objs, rooms, current_room, original_room_visit_order,
           current_event, visited_rooms, seen_events, variables, actions>>
canon == <<H, R, result>>
alone == <<parse, layout>>
vars == <<pc, world, buttons, last, calls, canon, alone>>

\* parse_variables not called
NoParse == [written |-> <<>>, variables |-> <<>>, returned |-> None]

\* calculate_room_positions not called
NoLayout ==
    [at |-> "idle", visited |-> {}, queue |-> <<>>, appended |-> <<>>, grid_positions |-> <<>>,
     min_x |-> None, max_x |-> None, min_y |-> None, max_y |-> None]

Min(a, b) == IF a < b THEN a ELSE b

\* Python's list slice xs[:n] for n >= 0
Slice(xs, n) == SubSeq(xs, 1, Min(n, Len(xs)))

(***************************************************************************)
(* GameWorld                                                               *)
(***************************************************************************)

\* An is_canon_route that compares only the room visited last
is_canon_route_last_only(visited, original) ==
    LET n == Min(Len(original), Len(visited))
    IN  n = 0 \/ visited[Len(visited)] = original[n]

\* GameWorld.is_canon_route, on the history and the reference order it reads
is_canon_route(visited, original) ==
    visited = Slice(original, Min(Len(original), Len(visited)))

\* utils.generate_non_canon_event: returns a text or raises
generate_non_canon_event(room, seen) ==
    LET call(returned) == [fn |-> "generate_non_canon_event", room |-> room,
                           seen_events |-> seen, returned |-> returned]
    IN  {[raised |-> FALSE, text |-> t, call |-> call(t)] : t \in NonCanonTexts}
        \cup {[raised |-> TRUE, text |-> "", call |-> call("")]}

\* A get_event that decides on the history as it was before the room was appended
get_event_before_append(room, visited, seen) ==
    IF is_canon_route(Slice(visited, Len(visited) - 1), original_room_visit_order)
    THEN {[raised |-> FALSE, event |-> room_objs[room].canon_event, is_canon |-> TRUE,
           calls |-> <<>>]}
    ELSE {[raised |-> g.raised, event |-> g.text, is_canon |-> FALSE,
           calls |-> <<g.call>>] : g \in generate_non_canon_event(room, seen)}

\* GameWorld.get_event(room), with visited_rooms = visited and seen_events = seen:
\* the outcomes (event, is_canon), the generator calls made, or an exception
get_event(room, visited, seen) ==
    IF is_canon_route(visited, original_room_visit_order)
    THEN {[raised |-> FALSE, event |-> room_objs[room].canon_event, is_canon |-> TRUE,
           calls |-> <<>>]}
    ELSE {[raised |-> g.raised, event |-> g.text, is_canon |-> FALSE,
           calls |-> <<g.call>>] : g \in generate_non_canon_event(room, seen)}

\* GameWorld.generate_actions with current_room = room, current_event = event:
\* the new value of self.actions, or an exception of utils.generate_actions
generate_actions(room, event, store) ==
    LET call == [fn |-> "generate_actions", room |-> room, event |-> event,
                 variables |-> store]
    IN  {[raised |-> FALSE, actions |-> Some(as), call |-> call] : as \in GenActions}
        \cup {[raised |-> TRUE, actions |-> actions, call |-> call]}

\* GameWorld.update_variables(action), lines 130-133: the loop over the names left
\* in keys, each assigned only when it is already in the store
RECURSIVE update_loop(_, _, _)
update_loop(store, changed_variables, keys) ==
    IF keys = {}
    THEN store
    ELSE LET variable == CHOOSE k \in keys : TRUE
             assigned == IF variable \in DOMAIN store
                         THEN [store EXCEPT ![variable] = changed_variables[variable]]
                         ELSE store
         IN  update_loop(assigned, changed_variables, keys \ {variable})

\* An update_variables that assigns every name of the action, like dict.update
update_variables_adds(store, action) ==
    action.changed_variables @@ store

\* GameWorld.update_variables(action): the store after the call
update_variables(store, action) ==
    update_loop(store, action.changed_variables, DOMAIN action.changed_variables)

\* A has_valid_variables that asks for all the names instead of any
has_valid_variables_all(store, action) ==
    \A var \in DOMAIN action.changed_variables : var \in DOMAIN store

\* GameWorld.has_valid_variables(action)
has_valid_variables(store, action) ==
    \E var \in DOMAIN action.changed_variables : var \in DOMAIN store

\* An add_room that does not record the start room in the history
add_room_start_not_recorded(id, room) ==
    /\ rooms' = (room.name :> id) @@ rooms
    /\ IF current_room = None
       THEN /\ visited_rooms' = visited_rooms
            /\ current_room' = Some(id)
            /\ current_event' = Some(Event(room.canon_event, TRUE))
            /\ \E ga \in generate_actions(id, Some(Event(room.canon_event, TRUE)), variables) :
                  /\ actions' = ga.actions
                  /\ calls' = <<ga.call>>
                  /\ pc' = IF ga.raised THEN "crashed" ELSE pc
                  /\ last' = [op |-> "add_room", room |-> id, first |-> TRUE,
                              raised |-> ga.raised]
       ELSE /\ UNCHANGED <<visited_rooms, current_room, current_event, actions, pc>>
            /\ calls' = <<>>
            /\ last' = [op |-> "add_room", room |-> id, first |-> FALSE, raised |-> FALSE]

\* An add_room that makes every room added the current room
add_room_always_current(id, room) ==
    /\ rooms' = (room.name :> id) @@ rooms
    /\ visited_rooms' = Append(visited_rooms, room.name)
    /\ current_room' = Some(id)
    /\ current_event' = Some(Event(room.canon_event, TRUE))
    /\ \E ga \in generate_actions(id, Some(Event(room.canon_event, TRUE)), variables) :
          /\ actions' = ga.actions
          /\ calls' = <<ga.call>>
          /\ pc' = IF ga.raised THEN "crashed" ELSE pc
          /\ last' = [op |-> "add_room", room |-> id, first |-> current_room = None,
                      raised |-> ga.raised]

\* GameWorld.add_room(room), room being the object room_objs'[id]
add_room(id, room) ==
    /\ rooms' = (room.name :> id) @@ rooms
    /\ IF current_room = None
       THEN /\ visited_rooms' = Append(visited_rooms, room.name)
            /\ current_room' = Some(id)
            /\ current_event' = Some(Event(room.canon_event, TRUE))
            /\ \E ga \in generate_actions(id, Some(Event(room.canon_event, TRUE)), variables) :
                  /\ actions' = ga.actions
                  /\ calls' = <<ga.call>>
                  /\ pc' = IF ga.raised THEN "crashed" ELSE pc
                  /\ last' = [op |-> "add_room", room |-> id, first |-> TRUE,
                              raised |-> ga.raised]
       ELSE /\ UNCHANGED <<visited_rooms, current_room, current_event, actions, pc>>
            /\ calls' = <<>>
            /\ last' = [op |-> "add_room", room |-> id, first |-> FALSE, raised |-> FALSE]

\* game_world.py:57-62
opposite ==
    (NORTH :> SOUTH) @@ (SOUTH :> NORTH) @@ (EAST :> WEST) @@ (WEST :> EAST)

\* A connect_rooms with line 66 in force: the reverse connection is wired too
connect_rooms_both_ways(room1_name, room2_name, direction) ==
    IF room1_name \notin DOMAIN rooms \/ room2_name \notin DOMAIN rooms
    THEN room_objs
    ELSE LET room1 == rooms[room1_name]
             room2 == rooms[room2_name]
             wired == [room_objs EXCEPT ![room1].connections[direction] = Some(room2)]
         IN  [wired EXCEPT ![room2].connections[opposite[direction]] = Some(room1)]

\* GameWorld.connect_rooms(room1_name, room2_name, direction): the Room objects after it
connect_rooms(room1_name, room2_name, direction) ==
    IF room1_name \notin DOMAIN rooms \/ room2_name \notin DOMAIN rooms
    THEN room_objs
    ELSE LET room1 == rooms[room1_name]
             room2 == rooms[room2_name]
         IN  [room_objs EXCEPT ![room1].connections[direction] = Some(room2)]

(***************************************************************************)
(* run_game                                                                *)
(***************************************************************************)

\* main.py:21-24, one iteration of the loop over world_data['rooms']
RunGameAddRoom ==
    /\ pc = "add_rooms"
    /\ Len(room_objs) < MaxRooms
    /\ \E name \in RoomNames :
          LET id == Len(room_objs) + 1
              room == Room(name, CanonEvents[id])
          IN  /\ room_objs' = Append(room_objs, room)
              /\ add_room(id, room)
    /\ UNCHANGED <<original_room_visit_order, seen_events, variables, buttons, canon, alone>>

\* main.py:26, the loop over the rooms is over
RunGameRoomsDone ==
    /\ pc = "add_rooms"
    /\ pc' = "connect_rooms"
    /\ last' = [op |-> "rooms_done"]
    /\ calls' = <<>>
    /\ UNCHANGED <<world, buttons, canon, alone>>

\* main.py:26-27, one iteration of the loop over world_data['connections']
RunGameConnect ==
    /\ pc = "connect_rooms"
    /\ \E room1 \in RoomNames, room2 \in RoomNames, direction \in WiredDirections :
          /\ room_objs' = connect_rooms(room1, room2, direction)
          /\ last' = [op |-> "connect_rooms", room1 |-> room1, room2 |-> room2,
                      direction |-> direction, raised |-> FALSE]
    /\ calls' = <<>>
    /\ UNCHANGED <<pc, rooms, current_room, original_room_visit_order, current_event,
                   visited_rooms, seen_events, variables, actions, buttons, canon, alone>>

(***************************************************************************)
(* GameUI.calculate_room_positions.  A float is <<n>> when finite, PosInf  *)
(* or NegInf otherwise.                                                    *)
(***************************************************************************)
PosInf == <<"+", "inf">>
NegInf == <<"-", "inf">>

\* a < b on floats
Less(a, b) ==
    /\ a # b
    /\ \/ a = NegInf
       \/ b = PosInf
       \/ a \notin {PosInf, NegInf} /\ b \notin {PosInf, NegInf} /\ a[1] < b[1]

\* min(a, b) and max(a, b) on floats
py_min(a, b) == IF Less(b, a) THEN b ELSE a
py_max(a, b) == IF Less(a, b) THEN b ELSE a

\* Offsets with north and south the other way round
offsets_north_down ==
    (NORTH :> <<0, 1>>) @@ (SOUTH :> <<0, 0 - 1>>) @@ (EAST :> <<1, 0>>) @@ (WEST :> <<0 - 1, 0>>)

\* game_ui.py:108-113
offsets ==
    (NORTH :> <<0, 0 - 1>>) @@ (SOUTH :> <<0, 1>>) @@ (EAST :> <<1, 0>>) @@ (WEST :> <<0 - 1, 0>>)

\* the order of Room.connections.items()
DirectionOrder == <<NORTH, SOUTH, EAST, WEST>>

\* lines 120-131: the body of the for loop, for one connection of the room popped
visit(st, room, grid_x, grid_y, direction) ==
    LET next_room == room_objs[room].connections[direction]
    IN  IF next_room # None /\ room_objs[Val(next_room)].name \notin st.visited
        THEN LET new_grid_x == grid_x + offsets[direction][1]
                 new_grid_y == grid_y + offsets[direction][2]
                 name == room_objs[Val(next_room)].name
             IN  [st EXCEPT
                    !.grid_positions = (name :> <<new_grid_x, new_grid_y>>) @@ @,
                    !.queue = Append(@, <<Val(next_room), new_grid_x, new_grid_y>>),
                    !.appended = Append(@, Val(next_room)),
                    !.visited = @ \cup {name},
                    !.min_x = py_min(@, <<new_grid_x>>),
                    !.max_x = py_max(@, <<new_grid_x>>),
                    !.min_y = py_min(@, <<new_grid_y>>),
                    !.max_y = py_max(@, <<new_grid_y>>)]
        ELSE st

\* line 119: the for loop over the connections of the room popped, from the i-th on
RECURSIVE for_connections(_, _, _, _, _)
for_connections(st, room, grid_x, grid_y, i) ==
    IF i > Len(DirectionOrder) THEN st
    ELSE for_connections(visit(st, room, grid_x, grid_y, DirectionOrder[i]),
                         room, grid_x, grid_y, i + 1)

\* A start that does not mark the start room visited
layout_start_root_unvisited(start_room) ==
    LET fresh == [at |-> "done", visited |-> {}, queue |-> <<>>, appended |-> <<>>,
                  grid_positions |-> <<>>,
                  min_x |-> PosInf, max_x |-> NegInf, min_y |-> PosInf, max_y |-> NegInf]
    IN  IF start_room = None THEN fresh
        ELSE [fresh EXCEPT
                !.at = "while",
                !.grid_positions = (room_objs[Val(start_room)].name :> <<0, 0>>),
                !.queue = <<<<Val(start_room), 0, 0>>>>,
                !.appended = <<Val(start_room)>>,
                !.min_x = py_min(@, <<0>>),
                !.max_x = py_max(@, <<0>>),
                !.min_y = py_min(@, <<0>>),
                !.max_y = py_max(@, <<0>>)]

\* lines 82-105: from the entry to the while loop, or to the return at line 93
layout_start(start_room) ==
    LET fresh == [at |-> "done", visited |-> {}, queue |-> <<>>, appended |-> <<>>,
                  grid_positions |-> <<>>,
                  min_x |-> PosInf, max_x |-> NegInf, min_y |-> PosInf, max_y |-> NegInf]
    IN  IF start_room = None THEN fresh
        ELSE [fresh EXCEPT
                !.at = "while",
                !.grid_positions = (room_objs[Val(start_room)].name :> <<0, 0>>),
                !.queue = <<<<Val(start_room), 0, 0>>>>,
                !.appended = <<Val(start_room)>>,
                !.visited = {room_objs[Val(start_room)].name},
                !.min_x = py_min(@, <<0>>),
                !.max_x = py_max(@, <<0>>),
                !.min_y = py_min(@, <<0>>),
                !.max_y = py_max(@, <<0>>)]

\* lines 117-131: one iteration of the while loop, the head of the queue popped
while_body(st) ==
    LET popped == Head(st.queue)
    IN  for_connections([st EXCEPT !.queue = Tail(@)], popped[1], popped[2], popped[3], 1)

\* lines 116-131: the while loop, to the return
RECURSIVE while_queue(_)
while_queue(st) ==
    IF st.at = "done" THEN st
    ELSE IF st.queue = <<>> THEN [st EXCEPT !.at = "done"]
    ELSE while_queue(while_body(st))

\* GameUI.calculate_room_positions, from the call to the return
calculate_room_positions(start_room) == while_queue(layout_start(start_room))


(***************************************************************************)
(* GameUI                                                                  *)
(***************************************************************************)

\* GameUI.update_display, lines 311-327: the action buttons built from the action set
\* acts and the store, red when has_valid_variables fails
action_buttons(acts, store) ==
    IF acts = None
    THEN <<>>
    ELSE [i \in DOMAIN Val(acts) |->
            [action |-> Val(acts)[i], red |-> ~has_valid_variables(store, Val(acts)[i])]]

\* GameUI.update_display: returns at once when there is no current room
update_display(room, acts, store) ==
    IF room = None THEN buttons ELSE action_buttons(acts, store)

\* GameUI.__init__, called at main.py:29-30: the window is built and the loop starts
StartUI ==
    /\ pc = "connect_rooms"
    /\ pc' = "run"
    /\ layout' = calculate_room_positions(current_room)
    /\ buttons' = update_display(current_room, actions, variables)
    /\ last' = [op |-> "start_ui"]
    /\ calls' = <<>>
    /\ UNCHANGED <<world, canon, parse>>

\* A move that appends before it changes the room: the name of the room left
moved_history_of_room_left(history, next_room) ==
    Append(history, room_objs[Val(current_room)].name)

\* game_ui.py:255, the history after current_room has become next_room
moved_history(history, next_room) ==
    Append(history, room_objs[Val(next_room)].name)

\* GameUI.move(direction)
move(direction) ==
    /\ pc = "run"
    /\ Len(visited_rooms) < MaxVisited
    /\ UNCHANGED <<pc, rooms, room_objs, original_room_visit_order,
                   variables, canon, alone>>
    /\ LET next_room == IF current_room = None
                        THEN None
                        ELSE room_objs[Val(current_room)].connections[direction]
       IN  IF next_room = None
           THEN /\ UNCHANGED <<current_room, visited_rooms, current_event, seen_events,
                               actions, buttons>>
                /\ calls' = <<>>
                /\ last' = [op |-> "move", direction |-> direction, moved |-> FALSE,
                            raised |-> FALSE, at |-> ""]
           ELSE LET visited == moved_history(visited_rooms, next_room)
                IN  /\ current_room' = next_room
                    /\ visited_rooms' = visited
                    /\ \E ge \in get_event(Val(next_room), visited, seen_events) :
                          IF ge.raised
                          THEN /\ UNCHANGED <<current_event, seen_events, actions, buttons>>
                               /\ calls' = ge.calls
                               /\ last' = [op |-> "move", direction |-> direction,
                                           moved |-> TRUE, raised |-> TRUE,
                                           at |-> "get_event"]
                          ELSE LET event == Some(Event(ge.event, ge.is_canon))
                               IN  /\ current_event' = event
                                   /\ seen_events' = Append(seen_events, EventClass)
                                   /\ \E ga \in generate_actions(Val(next_room), event,
                                                                 variables) :
                                         /\ actions' = ga.actions
                                         /\ calls' = ge.calls \o <<ga.call>>
                                         /\ buttons' =
                                               IF ga.raised
                                               THEN buttons
                                               ELSE update_display(next_room, ga.actions,
                                                                   variables)
                                         /\ last' = [op |-> "move",
                                                     direction |-> direction,
                                                     moved |-> TRUE,
                                                     raised |-> ga.raised,
                                                     at |-> IF ga.raised
                                                            THEN "generate_actions"
                                                            ELSE ""]

\* GameUI.perform_action(action), bound to the button number i
perform_action(i) ==
    /\ pc = "run"
    /\ i \in DOMAIN buttons
    /\ LET action == buttons[i].action
       IN  /\ variables' = update_variables(variables, action)
           /\ buttons' = update_display(current_room, actions, variables')
           /\ last' = [op |-> "perform_action", action |-> action, raised |-> FALSE]
    /\ calls' = <<>>
    /\ UNCHANGED <<pc, room_objs, rooms, current_room,
                   original_room_visit_order, current_event, visited_rooms, seen_events,
                   actions, canon, alone>>

Move == \E direction \in Direction : move(direction)

PerformAction == \E i \in 1..Len(buttons) : perform_action(i)

Init ==
    /\ pc = "add_rooms"
    /\ room_objs = <<>>
    /\ rooms = <<>>
    /\ current_room = None
    /\ original_room_visit_order \in Orders
    /\ current_event = None
    /\ visited_rooms = <<>>
    /\ seen_events = <<>>
    /\ variables \in Stores
    /\ actions = None
    /\ buttons = <<>>
    /\ last = [op |-> "init"]
    /\ calls = <<>>
    /\ H = <<>> /\ R = <<>> /\ result = TRUE
    /\ parse = NoParse
    /\ layout = NoLayout

Range(f) == {f[i] : i \in DOMAIN f}

\* Every sequence over S of length at most n
SeqsUpTo(S, n) == UNION {[1..k -> S] : k \in 0..n}

\* A world before any room is added, with a history H and a reference order R to compare
InitCanon ==
    /\ pc = "add_rooms"
    /\ room_objs = <<>>
    /\ rooms = <<>>
    /\ current_room = None
    /\ original_room_visit_order = <<>>
    /\ current_event = None
    /\ visited_rooms = <<>>
    /\ seen_events = <<>>
    /\ variables = <<>>
    /\ actions = None
    /\ buttons = <<>>
    /\ last = [op |-> "init"]
    /\ calls = <<>>
    /\ H \in SeqsUpTo(CanonNames, MaxLen)
    /\ R \in SeqsUpTo(CanonNames, MaxLen)
    /\ result = TRUE
    /\ parse = NoParse
    /\ layout = NoLayout

\* is_canon_route() called with visited_rooms = H and original_room_visit_order = R
IsCanonRoute ==
    /\ last.op = "init"
    /\ result' = is_canon_route(H, R)
    /\ last' = [op |-> "is_canon_route"]
    /\ UNCHANGED <<pc, world, buttons, calls, H, R, alone>>

Next ==
    \/ RunGameAddRoom
    \/ RunGameRoomsDone
    \/ RunGameConnect
    \/ StartUI
    \/ Move
    \/ PerformAction

Spec == Init /\ [][Next]_vars

NextCanon == IsCanonRoute

SpecCanon == InitCanon /\ [][NextCanon]_vars

(***************************************************************************)
(* utils.parse_variables.  A str is the sequence of its characters, so     *)
(* that strip, split, int and lower are computed as Python computes them.  *)
(* A printable ASCII character is written as itself, tab, newline, return  *)
(* and form feed as "\t", "\n", "\r" and "\f", and any other character as  *)
(* its Python escape: "\\x0b", "\\u3000", "\\U0001d7ce".                  *)
(* A parsed value is [int |-> n], [bool |-> b] or [str |-> s].             *)
(***************************************************************************)
MaxLines == 2      \* longest list of lines given to parse_variables

\* the characters str.strip() removes: those for which str.isspace() holds
Whitespace ==
    {"\t", "\n", "\\x0b", "\f", "\r", "\\x1c", "\\x1d", "\\x1e", "\\x1f", " ",
     "\\x85", "\\xa0", "\\u1680", "\\u2000", "\\u2001", "\\u2002", "\\u2003",
     "\\u2004", "\\u2005", "\\u2006", "\\u2007", "\\u2008", "\\u2009", "\\u200a",
     "\\u2028", "\\u2029", "\\u202f", "\\u205f", "\\u3000"}

\* the characters int() skips around the number: the same, \x1c to \x1f excepted
IntWhitespace == Whitespace \ {"\\x1c", "\\x1d", "\\x1e", "\\x1f"}

\* the decimal digits int() reads, ten to a script, the digit zero first
DecimalDigits == <<
    <<"0", "1", "2", "3", "4", "5", "6", "7", "8", "9">>,
    <<"\\u0660", "\\u0661", "\\u0662", "\\u0663", "\\u0664", "\\u0665", "\\u0666", "\\u0667", "\\u0668", "\\u0669">>,
    <<"\\u06f0", "\\u06f1", "\\u06f2", "\\u06f3", "\\u06f4", "\\u06f5", "\\u06f6", "\\u06f7", "\\u06f8", "\\u06f9">>,
    <<"\\u07c0", "\\u07c1", "\\u07c2", "\\u07c3", "\\u07c4", "\\u07c5", "\\u07c6", "\\u07c7", "\\u07c8", "\\u07c9">>,
    <<"\\u0966", "\\u0967", "\\u0968", "\\u0969", "\\u096a", "\\u096b", "\\u096c", "\\u096d", "\\u096e", "\\u096f">>,
    <<"\\u09e6", "\\u09e7", "\\u09e8", "\\u09e9", "\\u09ea", "\\u09eb", "\\u09ec", "\\u09ed", "\\u09ee", "\\u09ef">>,
    <<"\\u0a66", "\\u0a67", "\\u0a68", "\\u0a69", "\\u0a6a", "\\u0a6b", "\\u0a6c", "\\u0a6d", "\\u0a6e", "\\u0a6f">>,
    <<"\\u0ae6", "\\u0ae7", "\\u0ae8", "\\u0ae9", "\\u0aea", "\\u0aeb", "\\u0aec", "\\u0aed", "\\u0aee", "\\u0aef">>,
    <<"\\u0b66", "\\u0b67", "\\u0b68", "\\u0b69", "\\u0b6a", "\\u0b6b", "\\u0b6c", "\\u0b6d", "\\u0b6e", "\\u0b6f">>,
    <<"\\u0be6", "\\u0be7", "\\u0be8", "\\u0be9", "\\u0bea", "\\u0beb", "\\u0bec", "\\u0bed", "\\u0bee", "\\u0bef">>,
    <<"\\u0c66", "\\u0c67", "\\u0c68", "\\u0c69", "\\u0c6a", "\\u0c6b", "\\u0c6c", "\\u0c6d", "\\u0c6e", "\\u0c6f">>,
    <<"\\u0ce6", "\\u0ce7", "\\u0ce8", "\\u0ce9", "\\u0cea", "\\u0ceb", "\\u0cec", "\\u0ced", "\\u0cee", "\\u0cef">>,
    <<"\\u0d66", "\\u0d67", "\\u0d68", "\\u0d69", "\\u0d6a", "\\u0d6b", "\\u0d6c", "\\u0d6d", "\\u0d6e", "\\u0d6f">>,
    <<"\\u0de6", "\\u0de7", "\\u0de8", "\\u0de9", "\\u0dea", "\\u0deb", "\\u0dec", "\\u0ded", "\\u0dee", "\\u0def">>,
    <<"\\u0e50", "\\u0e51", "\\u0e52", "\\u0e53", "\\u0e54", "\\u0e55", "\\u0e56", "\\u0e57", "\\u0e58", "\\u0e59">>,
    <<"\\u0ed0", "\\u0ed1", "\\u0ed2", "\\u0ed3", "\\u0ed4", "\\u0ed5", "\\u0ed6", "\\u0ed7", "\\u0ed8", "\\u0ed9">>,
    <<"\\u0f20", "\\u0f21", "\\u0f22", "\\u0f23", "\\u0f24", "\\u0f25", "\\u0f26", "\\u0f27", "\\u0f28", "\\u0f29">>,
    <<"\\u1040", "\\u1041", "\\u1042", "\\u1043", "\\u1044", "\\u1045", "\\u1046", "\\u1047", "\\u1048", "\\u1049">>,
    <<"\\u1090", "\\u1091", "\\u1092", "\\u1093", "\\u1094", "\\u1095", "\\u1096", "\\u1097", "\\u1098", "\\u1099">>,
    <<"\\u17e0", "\\u17e1", "\\u17e2", "\\u17e3", "\\u17e4", "\\u17e5", "\\u17e6", "\\u17e7", "\\u17e8", "\\u17e9">>,
    <<"\\u1810", "\\u1811", "\\u1812", "\\u1813", "\\u1814", "\\u1815", "\\u1816", "\\u1817", "\\u1818", "\\u1819">>,
    <<"\\u1946", "\\u1947", "\\u1948", "\\u1949", "\\u194a", "\\u194b", "\\u194c", "\\u194d", "\\u194e", "\\u194f">>,
    <<"\\u19d0", "\\u19d1", "\\u19d2", "\\u19d3", "\\u19d4", "\\u19d5", "\\u19d6", "\\u19d7", "\\u19d8", "\\u19d9">>,
    <<"\\u1a80", "\\u1a81", "\\u1a82", "\\u1a83", "\\u1a84", "\\u1a85", "\\u1a86", "\\u1a87", "\\u1a88", "\\u1a89">>,
    <<"\\u1a90", "\\u1a91", "\\u1a92", "\\u1a93", "\\u1a94", "\\u1a95", "\\u1a96", "\\u1a97", "\\u1a98", "\\u1a99">>,
    <<"\\u1b50", "\\u1b51", "\\u1b52", "\\u1b53", "\\u1b54", "\\u1b55", "\\u1b56", "\\u1b57", "\\u1b58", "\\u1b59">>,
    <<"\\u1bb0", "\\u1bb1", "\\u1bb2", "\\u1bb3", "\\u1bb4", "\\u1bb5", "\\u1bb6", "\\u1bb7", "\\u1bb8", "\\u1bb9">>,
    <<"\\u1c40", "\\u1c41", "\\u1c42", "\\u1c43", "\\u1c44", "\\u1c45", "\\u1c46", "\\u1c47", "\\u1c48", "\\u1c49">>,
    <<"\\u1c50", "\\u1c51", "\\u1c52", "\\u1c53", "\\u1c54", "\\u1c55", "\\u1c56", "\\u1c57", "\\u1c58", "\\u1c59">>,
    <<"\\ua620", "\\ua621", "\\ua622", "\\ua623", "\\ua624", "\\ua625", "\\ua626", "\\ua627", "\\ua628", "\\ua629">>,
    <<"\\ua8d0", "\\ua8d1", "\\ua8d2", "\\ua8d3", "\\ua8d4", "\\ua8d5", "\\ua8d6", "\\ua8d7", "\\ua8d8", "\\ua8d9">>,
    <<"\\ua900", "\\ua901", "\\ua902", "\\ua903", "\\ua904", "\\ua905", "\\ua906", "\\ua907", "\\ua908", "\\ua909">>,
    <<"\\ua9d0", "\\ua9d1", "\\ua9d2", "\\ua9d3", "\\ua9d4", "\\ua9d5", "\\ua9d6", "\\ua9d7", "\\ua9d8", "\\ua9d9">>,
    <<"\\ua9f0", "\\ua9f1", "\\ua9f2", "\\ua9f3", "\\ua9f4", "\\ua9f5", "\\ua9f6", "\\ua9f7", "\\ua9f8", "\\ua9f9">>,
    <<"\\uaa50", "\\uaa51", "\\uaa52", "\\uaa53", "\\uaa54", "\\uaa55", "\\uaa56", "\\uaa57", "\\uaa58", "\\uaa59">>,
    <<"\\uabf0", "\\uabf1", "\\uabf2", "\\uabf3", "\\uabf4", "\\uabf5", "\\uabf6", "\\uabf7", "\\uabf8", "\\uabf9">>,
    <<"\\uff10", "\\uff11", "\\uff12", "\\uff13", "\\uff14", "\\uff15", "\\uff16", "\\uff17", "\\uff18", "\\uff19">>,
    <<"\\U000104a0", "\\U000104a1", "\\U000104a2", "\\U000104a3", "\\U000104a4", "\\U000104a5", "\\U000104a6", "\\U000104a7", "\\U000104a8", "\\U000104a9">>,
    <<"\\U00010d30", "\\U00010d31", "\\U00010d32", "\\U00010d33", "\\U00010d34", "\\U00010d35", "\\U00010d36", "\\U00010d37", "\\U00010d38", "\\U00010d39">>,
    <<"\\U00011066", "\\U00011067", "\\U00011068", "\\U00011069", "\\U0001106a", "\\U0001106b", "\\U0001106c", "\\U0001106d", "\\U0001106e", "\\U0001106f">>,
    <<"\\U000110f0", "\\U000110f1", "\\U000110f2", "\\U000110f3", "\\U000110f4", "\\U000110f5", "\\U000110f6", "\\U000110f7", "\\U000110f8", "\\U000110f9">>,
    <<"\\U00011136", "\\U00011137", "\\U00011138", "\\U00011139", "\\U0001113a", "\\U0001113b", "\\U0001113c", "\\U0001113d", "\\U0001113e", "\\U0001113f">>,
    <<"\\U000111d0", "\\U000111d1", "\\U000111d2", "\\U000111d3", "\\U000111d4", "\\U000111d5", "\\U000111d6", "\\U000111d7", "\\U000111d8", "\\U000111d9">>,
    <<"\\U000112f0", "\\U000112f1", "\\U000112f2", "\\U000112f3", "\\U000112f4", "\\U000112f5", "\\U000112f6", "\\U000112f7", "\\U000112f8", "\\U000112f9">>,
    <<"\\U00011450", "\\U00011451", "\\U00011452", "\\U00011453", "\\U00011454", "\\U00011455", "\\U00011456", "\\U00011457", "\\U00011458", "\\U00011459">>,
    <<"\\U000114d0", "\\U000114d1", "\\U000114d2", "\\U000114d3", "\\U000114d4", "\\U000114d5", "\\U000114d6", "\\U000114d7", "\\U000114d8", "\\U000114d9">>,
    <<"\\U00011650", "\\U00011651", "\\U00011652", "\\U00011653", "\\U00011654", "\\U00011655", "\\U00011656", "\\U00011657", "\\U00011658", "\\U00011659">>,
    <<"\\U000116c0", "\\U000116c1", "\\U000116c2", "\\U000116c3", "\\U000116c4", "\\U000116c5", "\\U000116c6", "\\U000116c7", "\\U000116c8", "\\U000116c9">>,
    <<"\\U00011730", "\\U00011731", "\\U00011732", "\\U00011733", "\\U00011734", "\\U00011735", "\\U00011736", "\\U00011737", "\\U00011738", "\\U00011739">>,
    <<"\\U000118e0", "\\U000118e1", "\\U000118e2", "\\U000118e3", "\\U000118e4", "\\U000118e5", "\\U000118e6", "\\U000118e7", "\\U000118e8", "\\U000118e9">>,
    <<"\\U00011950", "\\U00011951", "\\U00011952", "\\U00011953", "\\U00011954", "\\U00011955", "\\U00011956", "\\U00011957", "\\U00011958", "\\U00011959">>,
    <<"\\U00011c50", "\\U00011c51", "\\U00011c52", "\\U00011c53", "\\U00011c54", "\\U00011c55", "\\U00011c56", "\\U00011c57", "\\U00011c58", "\\U00011c59">>,
    <<"\\U00011d50", "\\U00011d51", "\\U00011d52", "\\U00011d53", "\\U00011d54", "\\U00011d55", "\\U00011d56", "\\U00011d57", "\\U00011d58", "\\U00011d59">>,
    <<"\\U00011da0", "\\U00011da1", "\\U00011da2", "\\U00011da3", "\\U00011da4", "\\U00011da5", "\\U00011da6", "\\U00011da7", "\\U00011da8", "\\U00011da9">>,
    <<"\\U00016a60", "\\U00016a61", "\\U00016a62", "\\U00016a63", "\\U00016a64", "\\U00016a65", "\\U00016a66", "\\U00016a67", "\\U00016a68", "\\U00016a69">>,
    <<"\\U00016ac0", "\\U00016ac1", "\\U00016ac2", "\\U00016ac3", "\\U00016ac4", "\\U00016ac5", "\\U00016ac6", "\\U00016ac7", "\\U00016ac8", "\\U00016ac9">>,
    <<"\\U00016b50", "\\U00016b51", "\\U00016b52", "\\U00016b53", "\\U00016b54", "\\U00016b55", "\\U00016b56", "\\U00016b57", "\\U00016b58", "\\U00016b59">>,
    <<"\\U0001d7ce", "\\U0001d7cf", "\\U0001d7d0", "\\U0001d7d1", "\\U0001d7d2", "\\U0001d7d3", "\\U0001d7d4", "\\U0001d7d5", "\\U0001d7d6", "\\U0001d7d7">>,
    <<"\\U0001d7d8", "\\U0001d7d9", "\\U0001d7da", "\\U0001d7db", "\\U0001d7dc", "\\U0001d7dd", "\\U0001d7de", "\\U0001d7df", "\\U0001d7e0", "\\U0001d7e1">>,
    <<"\\U0001d7e2", "\\U0001d7e3", "\\U0001d7e4", "\\U0001d7e5", "\\U0001d7e6", "\\U0001d7e7", "\\U0001d7e8", "\\U0001d7e9", "\\U0001d7ea", "\\U0001d7eb">>,
    <<"\\U0001d7ec", "\\U0001d7ed", "\\U0001d7ee", "\\U0001d7ef", "\\U0001d7f0", "\\U0001d7f1", "\\U0001d7f2", "\\U0001d7f3", "\\U0001d7f4", "\\U0001d7f5">>,
    <<"\\U0001d7f6", "\\U0001d7f7", "\\U0001d7f8", "\\U0001d7f9", "\\U0001d7fa", "\\U0001d7fb", "\\U0001d7fc", "\\U0001d7fd", "\\U0001d7fe", "\\U0001d7ff">>,
    <<"\\U0001e140", "\\U0001e141", "\\U0001e142", "\\U0001e143", "\\U0001e144", "\\U0001e145", "\\U0001e146", "\\U0001e147", "\\U0001e148", "\\U0001e149">>,
    <<"\\U0001e2f0", "\\U0001e2f1", "\\U0001e2f2", "\\U0001e2f3", "\\U0001e2f4", "\\U0001e2f5", "\\U0001e2f6", "\\U0001e2f7", "\\U0001e2f8", "\\U0001e2f9">>,
    <<"\\U0001e950", "\\U0001e951", "\\U0001e952", "\\U0001e953", "\\U0001e954", "\\U0001e955", "\\U0001e956", "\\U0001e957", "\\U0001e958", "\\U0001e959">>,
    <<"\\U0001fbf0", "\\U0001fbf1", "\\U0001fbf2", "\\U0001fbf3", "\\U0001fbf4", "\\U0001fbf5", "\\U0001fbf6", "\\U0001fbf7", "\\U0001fbf8", "\\U0001fbf9">> >>

DigitValue ==
    [c \in UNION {Range(DecimalDigits[r]) : r \in DOMAIN DecimalDigits} |->
        CHOOSE v \in 0..9 : \E r \in DOMAIN DecimalDigits : DecimalDigits[r][v + 1] = c]

Upper == <<"A", "B", "C", "D", "E", "F", "G", "H", "I", "J", "K", "L", "M", "N", "O", "P", "Q", "R", "S", "T", "U", "V", "W", "X", "Y", "Z">>
Lower == <<"a", "b", "c", "d", "e", "f", "g", "h", "i", "j", "k", "l", "m", "n", "o", "p", "q", "r", "s", "t", "u", "v", "w", "x", "y", "z">>

\* str.strip(chars): drop the characters of cs from both ends
RECURSIVE first_kept(_, _, _)
first_kept(s, cs, i) ==
    IF i > Len(s) \/ s[i] \notin cs THEN i ELSE first_kept(s, cs, i + 1)

RECURSIVE last_kept(_, _, _)
last_kept(s, cs, i) ==
    IF i < 1 \/ s[i] \notin cs THEN i ELSE last_kept(s, cs, i - 1)

strip_chars(s, cs) ==
    LET from == first_kept(s, cs, 1)
        to   == last_kept(s, cs, Len(s))
    IN  IF from > to THEN <<>> ELSE SubSeq(s, from, to)

\* str.strip()
strip(s) == strip_chars(s, Whitespace)

\* str.split(sep) for a separator of one character
RECURSIVE split(_, _)
split(s, sep) ==
    LET at == {i \in 1..Len(s) : s[i] = sep}
    IN  IF at = {} THEN <<s>>
        ELSE LET i == CHOOSE k \in at : \A j \in at : k <= j
             IN  <<SubSeq(s, 1, i - 1)>> \o split(SubSeq(s, i + 1, Len(s)), sep)

\* str.lower(), on the letters A to Z; no other character lowers to a letter of
\* "true" or "false", which is all that line 250 and line 252 compare it with
lower(s) ==
    [i \in 1..Len(s) |->
        IF \E k \in 1..Len(Upper) : Upper[k] = s[i]
        THEN Lower[CHOOSE k \in 1..Len(Upper) : Upper[k] = s[i]]
        ELSE s[i]]

\* the number a run of digits and underscores denotes
RECURSIVE digits_value(_, _)
digits_value(s, acc) ==
    IF s = <<>> THEN acc
    ELSE IF Head(s) = "_" THEN digits_value(Tail(s), acc)
    ELSE digits_value(Tail(s), 10 * acc + DigitValue[Head(s)])

\* sys.get_int_max_str_digits(): the most digits int() converts from a str
int_max_str_digits == 4300

\* int(s): Some(n), or None where Python raises ValueError
int(s) ==
    LET t    == strip_chars(s, IntWhitespace)
        neg  == t # <<>> /\ Head(t) = "-"
        body == IF t # <<>> /\ Head(t) \in {"-", "+"} THEN Tail(t) ELSE t
        read == DOMAIN DigitValue \cup {"_"}
        ok   == /\ body # <<>>
                /\ Cardinality({i \in 1..Len(body) : body[i] # "_"}) <= int_max_str_digits
                /\ \A i \in 1..Len(body) : body[i] \in read
                /\ body[1] # "_"
                /\ body[Len(body)] # "_"
                /\ \A i \in 1..(Len(body) - 1) : ~(body[i] = "_" /\ body[i + 1] = "_")
    IN  IF ~ok THEN None
        ELSE Some(IF neg THEN 0 - digits_value(body, 0) ELSE digits_value(body, 0))

\* the typing of the text after the colon
parse_value(value) ==
    LET v == strip_chars(strip(value), {"\""})
    IN  IF int(v) # None THEN [int |-> Val(int(v))]
        ELSE IF lower(v) = <<"t", "r", "u", "e">> THEN [bool |-> TRUE]
        ELSE IF lower(v) = <<"f", "a", "l", "s", "e">> THEN [bool |-> FALSE]
        ELSE [str |-> v]

\* the loop of parse_variables from line i on, result being the dict built so far
RECURSIVE parse_loop(_, _, _)
parse_loop(lines, i, dict) ==
    IF i > Len(lines) THEN [raised |-> FALSE, result |-> dict]
    ELSE IF strip(lines[i]) = <<>> THEN parse_loop(lines, i + 1, dict)
    ELSE LET parts == split(lines[i], ":")
         IN  IF Len(parts) # 2 THEN [raised |-> TRUE, result |-> <<>>]
             ELSE parse_loop(lines, i + 1,
                             (strip(parts[1]) :> parse_value(parts[2])) @@ dict)

parse_variables(lines) == parse_loop(lines, 1, <<>>)

\* The lines given: how each was written, and the typed value it was written to carry.
\* The last value is an integer literal of one digit more than int() converts; its
\* number is not written out, only that it is an integer.
Keys == {<<"h", "p">>, <<"m", "p">>}

Values == <<
    [text |-> <<"1", "0", "0">>,   quoted |-> FALSE, typed |-> [int |-> 100]],
    [text |-> <<"1", "0", "0">>,   quoted |-> TRUE,  typed |-> [int |-> 100]],
    [text |-> <<"-", "5">>,    quoted |-> FALSE, typed |-> [int |-> 0 - 5]],
    [text |-> <<"t", "r", "u", "e">>,  quoted |-> FALSE, typed |-> [bool |-> TRUE]],
    [text |-> <<"T", "r", "u", "e">>,  quoted |-> TRUE,  typed |-> [bool |-> TRUE]],
    [text |-> <<"F", "A", "L", "S", "E">>, quoted |-> FALSE, typed |-> [bool |-> FALSE]],
    [text |-> <<"Z", "e", "d">>,   quoted |-> TRUE,  typed |-> [str |-> <<"Z", "e", "d">>]],
    [text |-> <<"Z", "e", "d">>,   quoted |-> FALSE, typed |-> [str |-> <<"Z", "e", "d">>]],
    [text |-> <<"7", "u", "p">>,   quoted |-> FALSE, typed |-> [str |-> <<"7", "u", "p">>]],
    [text |-> [i \in 1..(int_max_str_digits + 1) |-> "1"], quoted |-> FALSE] >>

\* the values whose typed value is written out
ShortValues == {v \in DOMAIN Values : "typed" \in DOMAIN Values[v]}

Pads == <<
    [left |-> <<>>,    before |-> <<>>,    after |-> <<" ">>,      right |-> <<>>],
    [left |-> <<" ">>, before |-> <<"\\x0b">>, after |-> <<" ", "\\u3000">>,
     right |-> <<"\\x1f", "\t">>] >>

WrittenLines ==
    [kind : {"entry"}, key : Keys, value : ShortValues, pad : DOMAIN Pads]
    \cup [kind : {"blank"}, text : {<<>>, <<" ", "\\x85", "\t">>}]
    \cup [kind : {"malformed"}, text : {<<"h", "p">>, <<"a", ":", "b", ":", "c">>}]

\* The lists that hold the value of too many digits, alone and after a short line
LongLists ==
    LET long  == [kind |-> "entry", key |-> <<"m", "p">>, pad |-> 1,
                  value |-> CHOOSE v \in DOMAIN Values : v \notin ShortValues]
        short == [kind |-> "entry", key |-> <<"h", "p">>, pad |-> 1, value |-> 1]
    IN  {<<long>>, <<short, long>>}

\* the str of a line written
Render(w) ==
    IF w.kind # "entry" THEN w.text
    ELSE LET v == Values[w.value]
             p == Pads[w.pad]
             q == IF v.quoted THEN <<"\"">> ELSE <<>>
         IN  p.left \o w.key \o p.before \o <<":">> \o p.after \o q \o v.text \o q \o p.right

InitParse ==
    /\ pc = "add_rooms"
    /\ room_objs = <<>>
    /\ rooms = <<>>
    /\ current_room = None
    /\ original_room_visit_order = <<>>
    /\ current_event = None
    /\ visited_rooms = <<>>
    /\ seen_events = <<>>
    /\ variables = <<>>
    /\ actions = None
    /\ buttons = <<>>
    /\ last = [op |-> "init"]
    /\ calls = <<>>
    /\ H = <<>> /\ R = <<>> /\ result = TRUE
    /\ \E written \in SeqsUpTo(WrittenLines, MaxLines) \cup LongLists :
          parse = [written |-> written,
                   variables |-> [i \in 1..Len(written) |-> Render(written[i])],
                   returned |-> None]
    /\ layout = NoLayout

\* parse_variables(variables) called with the lines given
ParseVariables ==
    /\ last.op = "init"
    /\ parse.returned = None
    /\ parse' = [parse EXCEPT !.returned = Some(parse_variables(parse.variables))]
    /\ last' = [op |-> "parse_variables"]
    /\ UNCHANGED <<pc, world, buttons, calls, canon, layout>>

NextParse == ParseVariables

SpecParse == InitParse /\ [][NextParse]_vars

(***************************************************************************)
(* GameUI.calculate_room_positions taken one iteration of its while loop   *)
(* at a time, on worlds of three rooms wired in all four directions.       *)
(***************************************************************************)
MaxConnections == 3     \* most connections wired before the layout is computed

LayoutNames == <<"A", "B", "C">>

NumConnections ==
    Cardinality({<<id, d>> \in (DOMAIN room_objs) \X Direction :
                    room_objs[id].connections[d] # None})

\* The world after main.py:21-24 added n rooms of distinct names
InitLayout ==
    /\ pc = "connect_rooms"
    /\ \E n \in 0..Len(LayoutNames) :
          /\ room_objs = [id \in 1..n |-> Room(LayoutNames[id], CanonEvents[id])]
          /\ rooms = [name \in {LayoutNames[id] : id \in 1..n} |->
                         CHOOSE id \in 1..n : LayoutNames[id] = name]
          /\ current_room = IF n = 0 THEN None ELSE Some(1)
          /\ current_event = IF n = 0 THEN None ELSE Some(Event(CanonEvents[1], TRUE))
          /\ visited_rooms = IF n = 0 THEN <<>> ELSE <<LayoutNames[1]>>
          /\ actions = IF n = 0 THEN None
                       ELSE Some(CHOOSE ga \in GenActions : Len(ga) = 1)
    /\ original_room_visit_order = <<>>
    /\ seen_events = <<>>
    /\ variables = <<>>
    /\ buttons = <<>>
    /\ last = [op |-> "rooms_done"]
    /\ calls = <<>>
    /\ H = <<>> /\ R = <<>> /\ result = TRUE
    /\ parse = NoParse
    /\ layout = NoLayout

\* main.py:26-27, one iteration of the loop over world_data['connections']
LayoutConnect ==
    /\ pc = "connect_rooms"
    /\ NumConnections < MaxConnections
    /\ \E room1 \in Range(LayoutNames), room2 \in Range(LayoutNames), direction \in Direction :
          /\ room_objs' = connect_rooms(room1, room2, direction)
          /\ last' = [op |-> "connect_rooms", room1 |-> room1, room2 |-> room2,
                      direction |-> direction, raised |-> FALSE]
    /\ calls' = <<>>
    /\ UNCHANGED <<pc, rooms, current_room, original_room_visit_order, current_event,
                   visited_rooms, seen_events, variables, actions, buttons, canon, alone>>

\* GameUI.__init__ up to line 57, calculate_room_positions entered: with no current room
\* it returns at line 93 and __init__ goes on to update_display and the main loop
CalculateRoomPositions ==
    /\ pc = "connect_rooms"
    /\ layout' = layout_start(current_room)
    /\ IF current_room = None
       THEN /\ pc' = "run"
            /\ buttons' = update_display(current_room, actions, variables)
            /\ last' = [op |-> "start_ui"]
       ELSE /\ pc' = "start_ui"
            /\ last' = [op |-> "calculate_room_positions"]
            /\ UNCHANGED buttons
    /\ calls' = <<>>
    /\ UNCHANGED <<world, canon, parse>>

\* lines 116-131: one iteration of the while loop
WhileQueue ==
    /\ pc = "start_ui"
    /\ layout.at = "while"
    /\ layout.queue # <<>>
    /\ layout' = while_body(layout)
    /\ last' = [op |-> "while_queue"]
    /\ UNCHANGED <<pc, world, buttons, calls, canon, parse>>

\* line 116: the queue is empty, calculate_room_positions returns and GameUI.__init__
\* goes on to update_display (line 74) and the main loop
WhileDone ==
    /\ pc = "start_ui"
    /\ layout.at = "while"
    /\ layout.queue = <<>>
    /\ layout' = [layout EXCEPT !.at = "done"]
    /\ pc' = "run"
    /\ buttons' = update_display(current_room, actions, variables)
    /\ last' = [op |-> "start_ui"]
    /\ UNCHANGED <<world, calls, canon, parse>>

NextLayout ==
    \/ LayoutConnect
    \/ CalculateRoomPositions
    \/ WhileQueue
    \/ WhileDone

SpecLayout == InitLayout /\ [][NextLayout]_vars

\* calculate_room_positions runs on the UI thread without interruption
FairSpecLayout ==
    /\ SpecLayout
    /\ WF_vars(CalculateRoomPositions)
    /\ WF_vars(WhileQueue)
    /\ WF_vars(WhileDone)

(***************************************************************************)
(* C1.  For every history H and reference order R, is_canon_route is true  *)
(* iff the first min(len(H), len(R)) elements of H equal those of R, so it *)
(* is true whenever H begins with all of a shorter R.                      *)
(* The code compares the whole history with the prefix of R, so it answers *)
(* false whenever H is longer than R.                                      *)
(***************************************************************************)
PrefixesAgree(h, r) ==
    \A i \in 1..Min(Len(h), Len(r)) : h[i] = r[i]

C1_IsOnCanonIffPrefixesAgree ==
    last.op = "is_canon_route" => (result <=> PrefixesAgree(H, R))

C1_Witness ==
    /\ last.op = "is_canon_route"
    /\ H = <<"A", "B", "C">>
    /\ R = <<"A", "B">>

(***************************************************************************)
(* C2.  move and perform_action are atomic with respect to the generators: *)
(* when a generator call made during the operation raises, current room,   *)
(* history, active event, seen events, variables and action set are what   *)
(* they were before the operation.                                         *)
(* The code moves the room pointer and appends to the history before it    *)
(* calls a generator, and nothing undoes that when the call raises.        *)
(***************************************************************************)
C2_AtomicOnGeneratorFailure ==
    [][ (last'.op \in {"move", "perform_action"} /\ last'.raised)
        => UNCHANGED <<current_room, visited_rooms, current_event, seen_events,
                       variables, actions>> ]_vars

(***************************************************************************)
(* C3.  perform_action applies the action to the store and then asks the   *)
(* action generator once for a new action set, for the current room and    *)
(* with the updated store; event, room and history stay as they were.      *)
(* The code applies the action and redraws; it never calls the generator.  *)
(***************************************************************************)
C3_ActionRegeneratesActions ==
    [][ last'.op = "perform_action"
        => /\ variables' = update_variables(variables, last'.action)
           /\ UNCHANGED <<current_event, current_room, visited_rooms>>
           /\ Len(calls') = 1
           /\ calls'[1].fn = "generate_actions"
           /\ calls'[1].room = Val(current_room)
           /\ calls'[1].variables = variables' ]_vars

(***************************************************************************)
(* C4.  move(direction): when the current room has a connection at         *)
(* direction, the current room becomes that neighbour and exactly its name *)
(* is appended to the history; when it has none, or there is no current    *)
(* room, nothing of the world changes and no generator is called.          *)
(***************************************************************************)
C4_MoveEffect ==
    [][ last'.op = "move"
        => LET neighbour == IF current_room = None
                            THEN None
                            ELSE room_objs[Val(current_room)].connections[last'.direction]
           IN  IF neighbour # None
               THEN /\ current_room' = neighbour
                    /\ Len(visited_rooms') = Len(visited_rooms) + 1
                    /\ SubSeq(visited_rooms', 1, Len(visited_rooms)) = visited_rooms
                    /\ visited_rooms'[Len(visited_rooms')] = room_objs[Val(neighbour)].name
               ELSE /\ UNCHANGED <<current_room, visited_rooms, current_event,
                                   seen_events, actions, variables>>
                    /\ calls' = <<>> ]_vars

C4_Witness ==
    /\ last.op = "move"
    /\ last.moved
    /\ Len(visited_rooms) = 3
    /\ visited_rooms[2] # visited_rooms[3]

(***************************************************************************)
(* C5.  update_variables: every name of the action that was in the store   *)
(* holds the action's value, every other name of the store holds its old   *)
(* value, and the set of names in the store never changes.                 *)
(***************************************************************************)
C5_ApplyEffect ==
    [][ /\ DOMAIN variables' = DOMAIN variables
        /\ last'.op = "perform_action"
           => LET changed == last'.action.changed_variables
              IN  \A name \in DOMAIN variables :
                     variables'[name] = IF name \in DOMAIN changed
                                        THEN changed[name]
                                        ELSE variables[name]
        /\ last'.op # "perform_action" => variables' = variables ]_vars

\* an action naming hp (in the store) and xp (not in the store) was applied
C5_Witness ==
    /\ last.op = "perform_action"
    /\ DOMAIN last.action.changed_variables = {"hp", "xp"}
    /\ variables = ("hp" :> 1 @@ "mp" :> 0)

(***************************************************************************)
(* C6.  has_valid_variables(action) is true iff some changed-variable name *)
(* of the action is a key of the store: false for every action when the    *)
(* store is empty, false for an action that changes nothing.  The display  *)
(* only colours the button with it: the store is not modified by drawing,  *)
(* and a button whose action is not valid can still be performed.          *)
(***************************************************************************)
C6_ButtonsFlagged ==
    pc = "run" =>
        \A i \in DOMAIN buttons :
            LET changed == buttons[i].action.changed_variables
            IN  /\ ~buttons[i].red <=> (DOMAIN changed \cap DOMAIN variables # {})
                /\ variables = <<>> => buttons[i].red
                /\ changed = <<>> => buttons[i].red
                /\ ENABLED perform_action(i)

C6_IsActionable ==
    /\ []C6_ButtonsFlagged
    /\ [][ last'.op \in {"start_ui", "move"} => variables' = variables ]_vars

\* the action of a red button was performed on a store that is not empty
C6_Witness ==
    /\ last.op = "perform_action"
    /\ variables # <<>>
    /\ ~has_valid_variables(variables, last.action)
    /\ \E i \in DOMAIN buttons : buttons[i].action = last.action /\ buttons[i].red
    /\ \E i \in DOMAIN buttons : ~buttons[i].red

(***************************************************************************)
(* C7.  connect_rooms(A, B, D) changes exactly one connection entry: the   *)
(* entry at D of the room held under A becomes the room held under B and   *)
(* every other entry of every room, B's entry at the opposite direction    *)
(* included, is unchanged; when A or B is not a key of rooms, no entry     *)
(* changes.                                                                *)
(***************************************************************************)
C7_ConnectOneEntry ==
    [][ last'.op = "connect_rooms"
        => LET both == last'.room1 \in DOMAIN rooms /\ last'.room2 \in DOMAIN rooms
           IN  /\ DOMAIN room_objs' = DOMAIN room_objs
               /\ \A id \in DOMAIN room_objs, d \in Direction :
                     room_objs'[id].connections[d] =
                        IF both /\ id = rooms[last'.room1] /\ d = last'.direction
                        THEN Some(rooms[last'.room2])
                        ELSE room_objs[id].connections[d] ]_vars

\* A was connected to another room B, and B has no connection at all
C7_Witness ==
    /\ last.op = "connect_rooms"
    /\ last.room1 \in DOMAIN rooms
    /\ last.room2 \in DOMAIN rooms
    /\ rooms[last.room1] # rooms[last.room2]
    /\ room_objs[rooms[last.room1]].connections[last.direction] = Some(rooms[last.room2])
    /\ \A d \in Direction : room_objs[rooms[last.room2]].connections[d] = None

(***************************************************************************)
(* C8.  add_room(room) puts the room under its name; the first room added  *)
(* becomes the current room, the active event becomes (its canon event,    *)
(* true) and the history becomes [its name]; every later add_room leaves   *)
(* current room, active event, history and action set unchanged.           *)
(***************************************************************************)
C8_AddRoomEffect ==
    [][ last'.op = "add_room"
        => LET id == last'.room
               room == room_objs'[id]
           IN  /\ room_objs' = Append(room_objs, room)
               /\ room.name \in DOMAIN rooms'
               /\ rooms'[room.name] = id
               /\ \A name \in DOMAIN rooms' \ {room.name} :
                     name \in DOMAIN rooms /\ rooms'[name] = rooms[name]
               /\ IF room_objs = <<>>
                  THEN /\ current_room' = Some(id)
                       /\ current_event' = Some(Event(room.canon_event, TRUE))
                       /\ visited_rooms' = <<room.name>>
                  ELSE UNCHANGED <<current_room, current_event, visited_rooms,
                                   actions>> ]_vars

\* a later add_room, here one that reuses the name of the current room
C8_Witness ==
    /\ last.op = "add_room"
    /\ last.room = 2
    /\ current_room = Some(1)
    /\ room_objs[1].name = room_objs[2].name
    /\ current_event = Some(Event(room_objs[1].canon_event, TRUE))
    /\ visited_rooms = <<room_objs[1].name>>

(***************************************************************************)
(* C9.  After a move into room r that raised nothing, the active event is  *)
(* (r's canon event, true) when is_canon_route holds of the history that   *)
(* already ends with r, and (the text the non-canon generator returned,    *)
(* false) otherwise; the non-canon generator is called only in the second  *)
(* case; and the action generator is called last, with r and the new       *)
(* event, and its answer is the action set.                                *)
(***************************************************************************)
C9_EventAfterMove ==
    (last.op = "move" /\ last.moved /\ ~last.raised) =>
        LET r == Val(current_room)
            n == Len(calls)
        IN  /\ visited_rooms[Len(visited_rooms)] = room_objs[r].name
            /\ n >= 1
            /\ calls[n].fn = "generate_actions"
            /\ calls[n].room = r
            /\ calls[n].event = current_event
            /\ calls[n].variables = variables
            /\ \A i \in 1..(n - 1) : calls[i].fn = "generate_non_canon_event"
            /\ IF is_canon_route(visited_rooms, original_room_visit_order)
               THEN /\ current_event = Some(Event(room_objs[r].canon_event, TRUE))
                    /\ n = 1
               ELSE /\ n = 2
                    /\ calls[1].room = r
                    /\ current_event = Some(Event(calls[1].returned, FALSE))

\* a move back onto a room of the reference order, after the history left it
C9_Witness ==
    /\ last.op = "move"
    /\ last.moved
    /\ ~last.raised
    /\ original_room_visit_order = <<"A", "B">>
    /\ visited_rooms = <<"A", "A", "B">>
    /\ Val(current_event).is_canon = FALSE

(***************************************************************************)
(* C10.  World construction rejects configuration errors: a connection     *)
(* that names a room that is not in rooms, and an add_room under a name    *)
(* already used, raise an error, so the session never runs with a declared *)
(* connection dropped or with two rooms created under one name.            *)
(* The code returns silently from connect_rooms and overwrites the entry   *)
(* of rooms in add_room.                                                   *)
(***************************************************************************)
NameReused(id) ==
    \E other \in 1..(id - 1) : room_objs[other].name = room_objs[id].name

C10_ConfigurationErrorsRejected ==
    /\ (last.op = "connect_rooms"
        /\ (last.room1 \notin DOMAIN rooms \/ last.room2 \notin DOMAIN rooms))
       => last.raised
    /\ (last.op = "add_room" /\ NameReused(last.room)) => last.raised
    /\ pc = "run" => \A id \in DOMAIN room_objs : ~NameReused(id)

(***************************************************************************)
(* C11.  parse_variables maps every non-blank line "key : value" to one    *)
(* entry, trimmed key -> typed value: an integer when the trimmed,         *)
(* unquoted value is a base-10 integer literal, else a boolean when it is  *)
(* "true" or "false" in any case, else the trimmed string; blank lines     *)
(* give no entry, the whitespace around key and value is ignored, and the  *)
(* result has exactly one entry per distinct key, the last line of a key   *)
(* giving its value.                                                       *)
(* int() converts no more than int_max_str_digits digits: a longer integer *)
(* literal raises ValueError at line 248 and is kept as a string.          *)
(***************************************************************************)
Entries(written) == {i \in 1..Len(written) : written[i].kind = "entry"}

WellFormed(written) == \A i \in 1..Len(written) : written[i].kind # "malformed"

\* the value of the last line written for key k
LastWritten(written, k) ==
    LET i == CHOOSE j \in Entries(written) :
                /\ written[j].key = k
                /\ \A m \in Entries(written) : written[m].key = k => m <= j
    IN  Values[written[i].value]

\* got is the typed value that the value v was written to carry
Carries(got, v) ==
    IF "typed" \in DOMAIN v THEN got = v.typed ELSE DOMAIN got = {"int"}

C11_ParseTyped ==
    (parse.returned # None /\ WellFormed(parse.written))
    => /\ ~Val(parse.returned).raised
       /\ DOMAIN Val(parse.returned).result =
             {parse.written[i].key : i \in Entries(parse.written)}
       /\ \A k \in DOMAIN Val(parse.returned).result :
             Carries(Val(parse.returned).result[k], LastWritten(parse.written, k))

(***************************************************************************)
(* C12.  The layout gives the root (0,0) and every other placed room the   *)
(* coordinate of the room that discovered it first in breadth-first order  *)
(* plus the offset of the direction used (north (0,-1), south (0,1), east  *)
(* (1,0), west (-1,0)); a coordinate once assigned is kept, also when a    *)
(* later path to the room would give another one; min_x, max_x, min_y and  *)
(* max_y are the least and greatest assigned coordinates; with no current  *)
(* room the layout is empty.                                               *)
(***************************************************************************)
GridOffset(d) ==
    CASE d = NORTH -> <<0, 0 - 1>>
      [] d = SOUTH -> <<0, 1>>
      [] d = EAST  -> <<1, 0>>
      [] d = WEST  -> <<0 - 1, 0>>

\* the rooms in the order breadth-first traversal reached them, root first
Placed == layout.appended

Leads(from, to) == {d \in Direction : room_objs[from].connections[d] = Some(to)}

\* the position in Placed of the room that discovered Placed[k]
Discoverer(k) ==
    CHOOSE j \in 1..Len(Placed) :
        /\ Leads(Placed[j], Placed[k]) # {}
        /\ \A m \in 1..Len(Placed) : Leads(Placed[m], Placed[k]) # {} => j <= m

\* the direction it used: the first of its connections that leads there
DirectionUsed(k) ==
    DirectionOrder[CHOOSE i \in 1..Len(DirectionOrder) :
        /\ DirectionOrder[i] \in Leads(Placed[Discoverer(k)], Placed[k])
        /\ \A m \in 1..(i - 1) :
              DirectionOrder[m] \notin Leads(Placed[Discoverer(k)], Placed[k])]

Position(id) == layout.grid_positions[room_objs[id].name]

Xs == {layout.grid_positions[n][1] : n \in DOMAIN layout.grid_positions}
Ys == {layout.grid_positions[n][2] : n \in DOMAIN layout.grid_positions}

C12_LayoutWhenDone ==
    layout.at = "done" =>
        IF current_room = None
        THEN layout.grid_positions = <<>>
        ELSE /\ Placed[1] = Val(current_room)
             /\ Position(Val(current_room)) = <<0, 0>>
             /\ DOMAIN layout.grid_positions = {room_objs[id].name : id \in Range(Placed)}
             /\ \A k \in 2..Len(Placed) :
                   /\ \E j \in 1..Len(Placed) : Leads(Placed[j], Placed[k]) # {}
                   /\ Position(Placed[k]) =
                         <<Position(Placed[Discoverer(k)])[1] + GridOffset(DirectionUsed(k))[1],
                           Position(Placed[Discoverer(k)])[2] + GridOffset(DirectionUsed(k))[2]>>
             /\ layout.min_x = <<CHOOSE x \in Xs : \A y \in Xs : x <= y>>
             /\ layout.max_x = <<CHOOSE x \in Xs : \A y \in Xs : x >= y>>
             /\ layout.min_y = <<CHOOSE x \in Ys : \A y \in Ys : x <= y>>
             /\ layout.max_y = <<CHOOSE x \in Ys : \A y \in Ys : x >= y>>

C12_GridLayout ==
    /\ []C12_LayoutWhenDone
    /\ [][ \A n \in DOMAIN layout.grid_positions :
              /\ n \in DOMAIN layout'.grid_positions
              /\ layout'.grid_positions[n] = layout.grid_positions[n] ]_vars

\* three rooms placed, one of them also reached by a connection that would put it elsewhere
C12_Witness ==
    /\ layout.at = "done"
    /\ Len(Placed) = 3
    /\ \E k \in 2..3, j \in 1..3, d \in Direction :
          /\ d \in Leads(Placed[j], Placed[k])
          /\ j # k
          /\ j # Discoverer(k)
          /\ Position(Placed[k]) # <<Position(Placed[j])[1] + GridOffset(d)[1],
                                     Position(Placed[j])[2] + GridOffset(d)[2]>>
    /\ Less(layout.min_y, <<0>>)
    /\ Less(<<0>>, layout.max_x)

(***************************************************************************)
(* C13.  Referential integrity: the current room, if set, is the room held *)
(* in rooms under its name, and every connection of every room held in     *)
(* rooms points to a room held in rooms.                                   *)
(* add_room under a name already used replaces the entry of rooms (C10)    *)
(* while current_room keeps pointing to the room replaced.                 *)
(***************************************************************************)
Owned == {rooms[name] : name \in DOMAIN rooms}

C13_ReferentialIntegrity ==
    /\ current_room # None =>
          /\ room_objs[Val(current_room)].name \in DOMAIN rooms
          /\ rooms[room_objs[Val(current_room)].name] = Val(current_room)
    /\ \A id \in Owned, d \in Direction :
          room_objs[id].connections[d] # None =>
             Val(room_objs[id].connections[d]) \in Owned

(***************************************************************************)
(* C14.  The history is append-only and follows the current-room pointer:  *)
(* across every step the old history is a prefix of the new one, it grows  *)
(* by exactly one element exactly when the current room is set (the first  *)
(* add_room, a move along a connection), its first element is the name of  *)
(* the start room and, whenever there is a current room, its last element  *)
(* is the current room's name.                                             *)
(***************************************************************************)
SetsCurrentRoom(op) ==
    \/ op.op = "add_room" /\ op.first
    \/ op.op = "move" /\ op.moved

C14_HistoryTracksCurrentRoom ==
    current_room # None =>
        /\ Len(visited_rooms) >= 1
        /\ visited_rooms[1] = room_objs[1].name
        /\ visited_rooms[Len(visited_rooms)] = room_objs[Val(current_room)].name

C14_HistoryAppendOnly ==
    /\ []C14_HistoryTracksCurrentRoom
    /\ [][ /\ Len(visited_rooms') >= Len(visited_rooms)
           /\ SubSeq(visited_rooms', 1, Len(visited_rooms)) = visited_rooms
           /\ Len(visited_rooms') = Len(visited_rooms) + 1 <=> SetsCurrentRoom(last')
           /\ Len(visited_rooms') = Len(visited_rooms) \/ SetsCurrentRoom(last')
           /\ current_room' # current_room
              => Len(visited_rooms') = Len(visited_rooms) + 1 ]_vars

\* two moves, the second back to the start room, the last one raising in a generator
C14_Witness ==
    /\ last.op = "move"
    /\ last.moved
    /\ last.raised
    /\ Len(visited_rooms) = 3
    /\ visited_rooms[1] = visited_rooms[3]
    /\ visited_rooms[1] # visited_rooms[2]

(***************************************************************************)
(* C15.  The seen-events list the non-canon generator receives on entering *)
(* a room holds one (event text, canon flag) value per room entered        *)
(* before, in order: it starts with the start room's event and ends with   *)
(* the event that was active when the move began.                          *)
(* The code never appends the start room's event, and what move appends is *)
(* the class Event, not the event.                                         *)
(***************************************************************************)
IsEventValue(e) ==
    /\ DOMAIN e = {"event", "is_canon"}
    /\ e.is_canon \in BOOLEAN

C15_SeenEventsGiven ==
    [][ \A i \in DOMAIN calls' :
           (last'.op = "move" /\ calls'[i].fn = "generate_non_canon_event")
           => LET seen == calls'[i].seen_events
              IN  /\ Len(seen) = Len(visited_rooms)
                  /\ \A k \in DOMAIN seen : IsEventValue(seen[k])
                  /\ Len(seen) >= 1 =>
                        /\ seen[1] = Event(room_objs[1].canon_event, TRUE)
                        /\ seen[Len(seen)] = Val(current_event) ]_vars

(***************************************************************************)
(* C16.  Leaving the canon route is irreversible: once is_canon_route is   *)
(* false it is false in every later state, and once the active event is a  *)
(* non-canon one no later room entry makes it a canon one.                 *)
(***************************************************************************)
OffCanon == ~is_canon_route(visited_rooms, original_room_visit_order)

NonCanonEvent == current_event # None /\ ~Val(current_event).is_canon

C16_OffCanonForGood ==
    [][ /\ OffCanon => OffCanon'
        /\ NonCanonEvent => NonCanonEvent' ]_vars

\* off the route at the second room, then a move into the room the route has there
C16_Witness ==
    /\ last.op = "move"
    /\ last.moved
    /\ original_room_visit_order = <<"A", "B">>
    /\ Len(visited_rooms) = 3
    /\ visited_rooms[2] = "A"
    /\ visited_rooms[3] = "B"
    /\ OffCanon
    /\ NonCanonEvent
    /\ Len(calls) = 2

(***************************************************************************)
(* C17.  The breadth-first layout terminates on every room graph, cycles   *)
(* and self-connections included, appends each room to the queue at most   *)
(* once, and when it returns the rooms with a grid coordinate are exactly  *)
(* the rooms reachable from the root along non-empty connections.          *)
(***************************************************************************)
RECURSIVE ReachableFrom(_)
ReachableFrom(S) ==
    LET T == S \cup {id \in DOMAIN room_objs : \E from \in S : Leads(from, id) # {}}
    IN  IF T = S THEN S ELSE ReachableFrom(T)

AppendedOnce ==
    \A i, j \in 1..Len(layout.appended) :
        layout.appended[i] = layout.appended[j] => i = j

PlacedAreReachable ==
    layout.at = "done" =>
        DOMAIN layout.grid_positions =
            IF current_room = None THEN {}
            ELSE {room_objs[id].name : id \in ReachableFrom({Val(current_room)})}

C17_LayoutTerminates ==
    /\ <>(layout.at = "done")
    /\ []AppendedOnce
    /\ []PlacedAreReachable

\* a root connected to itself, a cycle through a second room, a third room out of reach
C17_Witness ==
    /\ layout.at = "done"
    /\ Len(room_objs) = 3
    /\ Leads(1, 1) # {}
    /\ Leads(1, 2) # {}
    /\ Leads(2, 1) # {}
    /\ DOMAIN layout.grid_positions = {room_objs[1].name, room_objs[2].name}
    /\ Len(layout.appended) = 2

====
